---- MODULE Spec2Model ----
(***************************************************************************)
(* Model of github.com/jkratz55/gonads: the option and result packages.    *)
(*                                                                         *)
(* The library is a set of pure functions over two value types.  The model *)
(* is a client that holds one container, an Option or a Result, calls the operations  *)
(* of the packages on them with inputs drawn from small sets, and records  *)
(* the outcome of the last call (what it returned, whether it panicked and *)
(* with which value, how often it invoked the caller-supplied function).   *)
(* A panic is recovered by the client, as the tests do with assert.Panics. *)
(***************************************************************************)
EXTENDS Integers, Sequences, FiniteSets, TLC

\* ------------------------------------------------------------------ bounds
\* largest int a client passes; ints are 0..MaxVal
MaxVal == 1
\* number of distinct non-nil error values a client passes
NumErr == 2

\* --------------------------------------------------------- Go value domain
\* A Go value is modelled as it looks after conversion to `any`: its dynamic
\* type k and a payload n.  The nil interface value has no dynamic type.
IntV(n) == [k |-> "int", n |-> n]
FloatV(n) == [k |-> "float64", n |-> n]
PtrV(a) == [k |-> "ptr", n |-> a]
ErrV(i) == [k |-> "err", n |-> i]
MapV == [k |-> "map", n |-> 0]
ChanV == [k |-> "chan", n |-> 0]
NilIface == [k |-> "nil", n |-> 0]
\* placeholder for "no value" in the record of a call
NoVal == [k |-> "none", n |-> 0]

\* the type arguments the client instantiates the containers with:
\* int, *int, any (interface{}) and error
Types == {"int", "ptr", "any", "error"}

\* Pointers handed in by the client are the addresses 1..NumAddr; address 0 is
\* the nil pointer.  Addresses above NumAddr are cells allocated by the JSON
\* decoder, one per decoded int, so a decoded pointer never aliases a client's.
NumAddr == MaxVal + 1
NilPtr == PtrV(0)
FreshPtr(n) == PtrV(NumAddr + 1 + n)
ClientPtrs == {PtrV(a) : a \in 0..NumAddr}

\* the int a non-nil *int points to
DerefInt(a) == IF a <= NumAddr THEN a - 1 ELSE a - NumAddr - 1
\* the value a non-nil *T points to, for the element types the client uses:
\* cells of *error hold nil (address 1) or an error value
Deref(T, a) ==
    IF T = "error" THEN (IF a = 1 THEN NilIface ELSE ErrV(1)) ELSE IntV(DerefInt(a))

Errs == {ErrV(i) : i \in 1..NumErr}
Ints == {IntV(n) : n \in 0..MaxVal}

\* the values of static type T a client can pass
ValuesOf(T) ==
    CASE T = "int" -> Ints
      [] T = "ptr" -> ClientPtrs
      [] T = "error" -> {NilIface} \cup Errs
      [] T = "any" -> {NilIface, NilPtr, ChanV} \cup Ints

\* the zero value of T (Go: var zeroVal T)
Zero(T) ==
    CASE T = "int" -> IntV(0)
      [] T = "ptr" -> NilPtr
      [] OTHER -> NilIface

\* reflect.TypeOf(val): the dynamic type, "nil" for a nil interface value
TypeOf(v) == v.k

\* ----------------------------------------------------- outcome of a call
Return(r) == [panicked |-> FALSE, msg |-> "", ret |-> r, calls |-> 0]
Panic(m) == [panicked |-> TRUE, msg |-> m, ret |-> NoVal, calls |-> 0]
\* the same outcome after n invocations of the caller-supplied function
Invoked(o, n) == [o EXCEPT !.calls = n]

Bool(b) == [k |-> "bool", n |-> IF b THEN 1 ELSE 0]
Pair(v, b) == [k |-> "pair", v |-> v, ok |-> b]

\* ------------------------------------------------------------ option.Option
\* type Option[T any] struct { val T; exists bool }
Option(T, v, e) == [typ |-> T, val |-> v, exists |-> e]
\* var o Option[T]
ZeroOption(T) == Option(T, Zero(T), FALSE)

\* Some without the guard against the nil interface value
Some_NoGuard(T, val) == Return(Option(T, val, TRUE))

Some(T, val) ==
    IF TypeOf(val) = "nil"
    THEN Panic("cannot provide a nil value for Some")
    ELSE Return(Option(T, val, TRUE))

None(T) == Return(Option(T, Zero(T), FALSE))

FromNillable(T, p) ==
    IF p = NilPtr THEN None(T) ELSE Some(T, Deref(T, p.n))

PtrFromNillable(p) ==
    IF p = NilPtr THEN None("ptr") ELSE Some("ptr", p)

IsSome(o) == Return(Bool(o.exists))
IsNone(o) == Return(Bool(~o.exists))

\* ------------------------------------------- caller-supplied functions
\* gonads.Predicate[T]
Predicates == {"always", "never", "nonzero"}
ApplyPred(fn, v) ==
    CASE fn = "always" -> TRUE
      [] fn = "never" -> FALSE
      [] fn = "nonzero" -> v.n > 0

\* gonads.Function[T, R]: succ is int -> int, validate is int -> error (nil
\* for 0, as a validator returns nil for a valid input), box is T -> any (the
\* conversion of v to any)
FnsOn(T) == IF T = "int" THEN {"succ", "validate", "box"} ELSE {"box"}
FnCod(fn) ==
    CASE fn = "succ" -> "int"
      [] fn = "validate" -> "error"
      [] fn = "box" -> "any"
Apply(fn, v) ==
    CASE fn = "succ" -> IntV((v.n + 1) % (MaxVal + 1))
      [] fn = "validate" -> (IF v.n = 0 THEN NilIface ELSE ErrV(1))
      [] fn = "box" -> v

\* func(T) Option[R]: pred is int -> Option[int] (None for 0), lookup is
\* T -> Option[any] (None for a value with payload 0), absent is T -> Option[int]
OptFnsOn(T) == IF T = "int" THEN {"pred", "lookup", "absent"} ELSE {"lookup", "absent"}
OptFnCod(fn) == IF fn = "lookup" THEN "any" ELSE "int"
ApplyOpt(fn, v) ==
    CASE fn = "pred" ->
           (IF v.n = 0 THEN None("int").ret ELSE Some("int", IntV(v.n - 1)).ret)
      [] fn = "lookup" ->
           (IF v.n = 0 THEN None("any").ret ELSE Some("any", v).ret)
      [] fn = "absent" -> None("int").ret

\* the messages a client passes to Expect
Msgs == {"missing string property", "cannot unwrap none/nil value"}

\* ------------------------------------------------- option.Option, methods
\* IfSome / IfNone return nothing; calls counts the invocations of fn
IfSome(o) == IF o.exists THEN Invoked(Return(NoVal), 1) ELSE Return(NoVal)
IfNone(o) == IF ~o.exists THEN Invoked(Return(NoVal), 1) ELSE Return(NoVal)

\* Filter that drops a rejected value by clearing the flag only
Filter_KeepVal(o, fn) ==
    IF ~o.exists
    THEN None(o.typ)
    ELSE IF ApplyPred(fn, o.val)
         THEN Invoked(Some(o.typ, o.val), 1)
         ELSE Invoked(Return(Option(o.typ, o.val, FALSE)), 1)

Filter(o, fn) ==
    IF ~o.exists
    THEN None(o.typ)
    ELSE IF ApplyPred(fn, o.val)
         THEN Invoked(Some(o.typ, o.val), 1)
         ELSE Invoked(None(o.typ), 1)

Get(o) == Return(Pair(o.val, o.exists))

Unwrap(o) ==
    IF ~o.exists THEN Panic("cannot unwrap none/nil value") ELSE Return(o.val)

UnwrapOrDefault(o, defaultVal) ==
    IF ~o.exists THEN Return(defaultVal) ELSE Return(o.val)

\* the supplier is modelled by the value s it returns
UnwrapOrElse(o, s) ==
    IF ~o.exists THEN Invoked(Return(s), 1) ELSE Return(o.val)

\* Expect that delegates to Unwrap and so loses the caller's message
Expect_ViaUnwrap(o, msg) == Unwrap(o)

Expect(o, msg) ==
    IF ~o.exists THEN Panic(msg) ELSE Return(o.val)

\* ------------------------------------------------------ free combinators
Map(o, fn) ==
    IF ~o.exists
    THEN None(FnCod(fn))
    ELSE Invoked(Some(FnCod(fn), Apply(fn, o.val)), 1)

MapOr(o, fallback, fn) ==
    IF ~o.exists THEN Return(fallback) ELSE Invoked(Return(Apply(fn, o.val)), 1)

FlatMap(o, fn) ==
    IF ~o.exists
    THEN None(OptFnCod(fn))
    ELSE Invoked(Return(ApplyOpt(fn, o.val)), 1)

FlatMapOr(o, fallback, fn) ==
    IF ~o.exists
    THEN Some(OptFnCod(fn), fallback)
    ELSE Invoked(Return(ApplyOpt(fn, o.val)), 1)

\* ------------------------------------------------------- encoding/json
\* []byte is a sequence of one-character strings
jsonNull == <<"n", "u", "l", "l">>
DigitChars == <<"0", "1", "2", "3", "4", "5", "6", "7", "8", "9">>

RECURSIVE Digits(_)
\* the decimal text of a natural number
Digits(n) == IF n < 10 THEN <<DigitChars[n + 1]>> ELSE Digits(n \div 10) \o <<DigitChars[(n % 10) + 1]>>

DigitOf(c) == CHOOSE d \in 0..9 : DigitChars[d + 1] = c
IsDigit(c) == \E d \in 0..9 : DigitChars[d + 1] = c

RECURSIVE ParseNat(_)
\* the number a sequence of digits denotes
ParseNat(s) ==
    IF Len(s) = 0 THEN 0
    ELSE 10 * ParseNat(SubSeq(s, 1, Len(s) - 1)) + DigitOf(s[Len(s)])

\* a JSON number without sign, fraction or exponent: no leading zero
IsNumber(s) ==
    /\ Len(s) > 0
    /\ \A i \in 1..Len(s) : IsDigit(s[i])
    /\ (Len(s) > 1 => s[1] # "0")

RECURSIVE TrimLeft(_)
TrimLeft(s) == IF Len(s) > 0 /\ s[1] = " " THEN TrimLeft(Tail(s)) ELSE s
RECURSIVE TrimRight(_)
TrimRight(s) ==
    IF Len(s) > 0 /\ s[Len(s)] = " " THEN TrimRight(SubSeq(s, 1, Len(s) - 1)) ELSE s
\* the JSON text without the insignificant whitespace around it
Trim(s) == TrimRight(TrimLeft(s))

\* json.Marshal(v): the error flag and the bytes
JsonMarshal(v) ==
    CASE v.k = "nil" -> [err |-> FALSE, data |-> jsonNull]
      [] v.k = "int" -> [err |-> FALSE, data |-> Digits(v.n)]
      [] v.k = "float64" -> [err |-> FALSE, data |-> Digits(v.n)]
      [] v.k = "ptr" ->
           [err |-> FALSE,
            data |-> IF v.n = 0 THEN jsonNull ELSE Digits(DerefInt(v.n))]
      [] v.k = "err" -> [err |-> FALSE, data |-> <<"{", "}">>]
      [] v.k = "map" -> [err |-> FALSE, data |-> <<"{", "}">>]
      [] v.k = "chan" -> [err |-> TRUE, data |-> <<>>]

\* var v T; err := json.Unmarshal(data, &v): the error flag and v afterwards
JsonUnmarshal(T, data) ==
    LET s == Trim(data) IN
    CASE s = jsonNull -> [err |-> FALSE, val |-> Zero(T)]
      [] IsNumber(s) ->
           (CASE T = "int" -> [err |-> FALSE, val |-> IntV(ParseNat(s))]
              [] T = "ptr" -> [err |-> FALSE, val |-> FreshPtr(ParseNat(s))]
              [] T = "any" -> [err |-> FALSE, val |-> FloatV(ParseNat(s))]
              [] T = "error" -> [err |-> TRUE, val |-> Zero(T)])
      [] s = <<"{", "}">> ->
           (IF T = "any" THEN [err |-> FALSE, val |-> MapV]
                         ELSE [err |-> TRUE, val |-> Zero(T)])
      [] OTHER -> [err |-> TRUE, val |-> Zero(T)]

Bytes(e, d) == [k |-> "bytes", err |-> e, data |-> d]

MarshalJSON(o) ==
    IF ~o.exists
    THEN Return(Bytes(JsonMarshal(NilIface).err, JsonMarshal(NilIface).data))
    ELSE LET m == JsonMarshal(o.val) IN
         IF m.err THEN Return(Bytes(TRUE, <<>>)) ELSE Return(Bytes(FALSE, m.data))

\* the receiver after the call and the error flag
Decoded(o, e) == [k |-> "decoded", o |-> o, err |-> e]

\* UnmarshalJSON without the test for empty input and the literal null
UnmarshalJSON_NoNullCheck(o, data) ==
    LET u == JsonUnmarshal(o.typ, data) IN
    IF u.err
    THEN Return(Decoded(o, TRUE))
    ELSE LET sm == Some(o.typ, u.val) IN
         IF sm.panicked THEN sm ELSE Return(Decoded(sm.ret, FALSE))

\* UnmarshalJSON that resets the receiver before it reports a decoding error
UnmarshalJSON_ResetOnError(o, data) ==
    IF Len(data) <= 0 \/ data = jsonNull
    THEN Return(Decoded(None(o.typ).ret, FALSE))
    ELSE LET u == JsonUnmarshal(o.typ, data) IN
         IF u.err
         THEN Return(Decoded(None(o.typ).ret, TRUE))
         ELSE LET sm == Some(o.typ, u.val) IN
              IF sm.panicked THEN sm ELSE Return(Decoded(sm.ret, FALSE))

UnmarshalJSON(o, data) ==
    IF Len(data) <= 0 \/ data = jsonNull
    THEN Return(Decoded(None(o.typ).ret, FALSE))
    ELSE LET u == JsonUnmarshal(o.typ, data) IN
         IF u.err
         THEN Return(Decoded(o, TRUE))
         ELSE LET sm == Some(o.typ, u.val) IN
              IF sm.panicked THEN sm ELSE Return(Decoded(sm.ret, FALSE))

\* the inputs a client hands to UnmarshalJSON
Inputs ==
    {<<>>, jsonNull, <<" ">> \o jsonNull, <<"{", "}">>, <<"x">>}
        \cup {Digits(n) : n \in 0..MaxVal}

\* ------------------------------------------------------------ result.Result
\* type Result[T any] struct { val T; err error }
Result(T, v, e) == [typ |-> T, val |-> v, err |-> e]
\* var r Result[T]
ZeroResult(T) == Result(T, Zero(T), NilIface)
\* the type arguments the client instantiates Result with
ResultTypes == Types
\* the type argument the client of the pointer-based representation uses
LegacyTypes == {"int"}

\* From that zeroes the value when the error is not nil
From_ZeroOnError(T, val, err) ==
    IF err # NilIface THEN Return(Result(T, Zero(T), err)) ELSE Return(Result(T, val, err))

From(T, val, err) == Return(Result(T, val, err))

Ok(T, val) == Return(Result(T, val, NilIface))

Error(T, err) == Return(Result(T, Zero(T), err))

IsOk(r) == Return(Bool(r.err = NilIface))

\* IsErr that also takes a zero payload for a failure
IsErr_ZeroIsFailure(r) == Return(Bool(r.err # NilIface \/ r.val = Zero(r.typ)))

IsErr(r) == Return(Bool(r.err # NilIface))

IfOk(r) == IF r.err = NilIface THEN Invoked(Return(NoVal), 1) ELSE Return(NoVal)

IfError(r) == IF r.err # NilIface THEN Invoked(Return(NoVal), 1) ELSE Return(NoVal)

\* func (r Result[T]) Ok() option.Option[T]
ResultOk(r) == IF r.err = NilIface THEN Some(r.typ, r.val) ELSE None(r.typ)

\* func (r Result[T]) Error() option.Option[error]
ResultError(r) == IF r.err # NilIface THEN Some("error", r.err) ELSE None("error")

ResultGet(r) == Return([k |-> "pair", v |-> r.val, err |-> r.err])

ResultUnwrap(r) ==
    IF r.err # NilIface THEN Panic("cannot unwrap Result when Error") ELSE Return(r.val)

ResultUnwrapOrDefault(r, defaultVal) ==
    IF r.err # NilIface THEN Return(defaultVal) ELSE Return(r.val)

\* UnwrapOrElse that calls the supplier before looking at the error
ResultUnwrapOrElse_Eager(r, s) ==
    IF r.err # NilIface THEN Invoked(Return(s), 1) ELSE Invoked(Return(r.val), 1)

ResultUnwrapOrElse(r, s) ==
    IF r.err # NilIface THEN Invoked(Return(s), 1) ELSE Return(r.val)

ResultExpect(r, msg) ==
    IF r.err # NilIface THEN Panic(msg) ELSE Return(r.val)

\* Map that applies fn before looking at the error
ResultMap_Eager(r, fn) ==
    LET y == Apply(fn, r.val) IN
    IF r.err # NilIface
    THEN Invoked(From(FnCod(fn), y, r.err), 1)
    ELSE Invoked(Ok(FnCod(fn), y), 1)

ResultMap(r, fn) ==
    IF r.err # NilIface
    THEN Error(FnCod(fn), r.err)
    ELSE Invoked(Ok(FnCod(fn), Apply(fn, r.val)), 1)

\* ------------------------------- result.Result, pointer-based representation
\* type Result[T any] struct { val *T; err error }: val is nil or a reference
\* to a copy of the value
NilRef == [k |-> "nilref", n |-> 0]
RefTo(v) == [k |-> "ref", to |-> v]
LegacyResult(T, ref, e) == [typ |-> T, val |-> ref, err |-> e]
ZeroLegacyResult(T) == LegacyResult(T, NilRef, NilIface)

LegacyFrom(T, val, err) == Return(LegacyResult(T, RefTo(val), err))

LegacyOk(T, val) == Return(LegacyResult(T, RefTo(val), NilIface))

LegacyErr(T, err) == Return(LegacyResult(T, NilRef, err))

LegacyIsOk(r) == Return(Bool(r.err = NilIface))

LegacyIsErr(r) == Return(Bool(r.err # NilIface))

\* return *r.val: a nil r.val is a runtime panic
LegacyUnwrap(r) ==
    IF r.err # NilIface
    THEN Panic("")
    ELSE IF r.val = NilRef
         THEN Panic("invalid memory address or nil pointer dereference")
         ELSE Return(r.val.to)

\* ------------------------------------------------------ record of a call
Call(op, recv, arg, fn, data, o) ==
    [op |-> op, recv |-> recv, arg |-> arg, fn |-> fn, data |-> data,
     panicked |-> o.panicked, msg |-> o.msg, ret |-> o.ret, calls |-> o.calls]

\* held is the one container the client holds, an Option or a Result; last is
\* the record of the last call
VARIABLES held, last
vars == <<held, last>>

IsOption(c) == "exists" \in DOMAIN c
IsResult(c) == "err" \in DOMAIN c

\* the client keeps the container a call returned; after a panic (recovered)
\* the assignment did not happen
Keep(o) == IF o.panicked THEN held ELSE o.ret

Init ==
    /\ held \in {ZeroOption(T) : T \in Types} \cup {ZeroResult(T) : T \in ResultTypes}
    /\ last = Call("init", NoVal, NoVal, "", <<>>, Return(NoVal))

\* ---------------------------------------------- option: constructors
DoSome ==
    \E T \in Types : \E v \in ValuesOf(T) :
        /\ last' = Call("Some", Option(T, NoVal, FALSE), v, "", <<>>, Some(T, v))
        /\ held' = Keep(Some(T, v))

DoNone ==
    \E T \in Types :
        /\ last' = Call("None", Option(T, NoVal, FALSE), NoVal, "", <<>>, None(T))
        /\ held' = Keep(None(T))

\* FromNillable[T](val *T) for T in int, error
DoFromNillable ==
    \E T \in {"int", "error"} : \E p \in ClientPtrs :
        /\ last' = Call("FromNillable", Option(T, NoVal, FALSE), p, "", <<>>,
                        FromNillable(T, p))
        /\ held' = Keep(FromNillable(T, p))

DoPtrFromNillable ==
    \E p \in ClientPtrs :
        /\ last' = Call("PtrFromNillable", NoVal, p, "", <<>>, PtrFromNillable(p))
        /\ held' = Keep(PtrFromNillable(p))

\* var held Option[T]
DoZeroOption ==
    \E T \in Types :
        /\ last' = Call("var", NoVal, NoVal, "", <<>>, Return(ZeroOption(T)))
        /\ held' = ZeroOption(T)

\* ---------------------------------------------- option: methods
DoIsSome ==
    /\ IsOption(held)
    /\ last' = Call("IsSome", held, NoVal, "", <<>>, IsSome(held))
    /\ UNCHANGED held

DoIsNone ==
    /\ IsOption(held)
    /\ last' = Call("IsNone", held, NoVal, "", <<>>, IsNone(held))
    /\ UNCHANGED held

DoIfSome ==
    /\ IsOption(held)
    /\ last' = Call("IfSome", held, NoVal, "consumer", <<>>, IfSome(held))
    /\ UNCHANGED held

DoIfNone ==
    /\ IsOption(held)
    /\ last' = Call("IfNone", held, NoVal, "proc", <<>>, IfNone(held))
    /\ UNCHANGED held

DoFilter ==
    /\ IsOption(held)
    /\ \E fn \in Predicates :
           /\ last' = Call("Filter", held, NoVal, fn, <<>>, Filter(held, fn))
           /\ held' = Keep(Filter(held, fn))

DoGet ==
    /\ IsOption(held)
    /\ last' = Call("Get", held, NoVal, "", <<>>, Get(held))
    /\ UNCHANGED held

DoUnwrap ==
    /\ IsOption(held)
    /\ last' = Call("Unwrap", held, NoVal, "", <<>>, Unwrap(held))
    /\ UNCHANGED held

DoUnwrapOrDefault ==
    /\ IsOption(held)
    /\ \E d \in ValuesOf(held.typ) :
           /\ last' = Call("UnwrapOrDefault", held, d, "", <<>>, UnwrapOrDefault(held, d))
           /\ UNCHANGED held

DoUnwrapOrElse ==
    /\ IsOption(held)
    /\ \E s \in ValuesOf(held.typ) :
           /\ last' = Call("UnwrapOrElse", held, s, "supplier", <<>>, UnwrapOrElse(held, s))
           /\ UNCHANGED held

DoExpect ==
    /\ IsOption(held)
    /\ \E m \in Msgs :
           /\ last' = Call("Expect", held, NoVal, m, <<>>, Expect(held, m))
           /\ UNCHANGED held

\* ---------------------------------------------- option: combinators
DoMap ==
    /\ IsOption(held)
    /\ \E fn \in FnsOn(held.typ) :
           /\ last' = Call("Map", held, NoVal, fn, <<>>, Map(held, fn))
           /\ held' = Keep(Map(held, fn))

DoMapOr ==
    /\ IsOption(held)
    /\ \E fn \in FnsOn(held.typ) : \E fb \in ValuesOf(FnCod(fn)) :
           /\ last' = Call("MapOr", held, fb, fn, <<>>, MapOr(held, fb, fn))
           /\ UNCHANGED held

DoFlatMap ==
    /\ IsOption(held)
    /\ \E fn \in OptFnsOn(held.typ) :
           /\ last' = Call("FlatMap", held, NoVal, fn, <<>>, FlatMap(held, fn))
           /\ held' = Keep(FlatMap(held, fn))

DoFlatMapOr ==
    /\ IsOption(held)
    /\ \E fn \in OptFnsOn(held.typ) : \E fb \in ValuesOf(OptFnCod(fn)) :
           /\ last' = Call("FlatMapOr", held, fb, fn, <<>>, FlatMapOr(held, fb, fn))
           /\ held' = Keep(FlatMapOr(held, fb, fn))

\* ---------------------------------------------- option: JSON
DoMarshalJSON ==
    /\ IsOption(held)
    /\ last' = Call("MarshalJSON", held, NoVal, "", <<>>, MarshalJSON(held))
    /\ UNCHANGED held

\* err := held.UnmarshalJSON(data): the receiver is replaced in place
DoUnmarshalJSON ==
    /\ IsOption(held)
    /\ \E data \in Inputs :
           LET o == UnmarshalJSON(held, data) IN
           /\ last' = Call("UnmarshalJSON", held, NoVal, "", data, o)
           /\ held' = IF o.panicked THEN held ELSE o.ret.o

\* data, _ := held.MarshalJSON(); var o Option[T]; err := o.UnmarshalJSON(data);
\* held = o: the client decodes the bytes the preceding MarshalJSON produced
\* into a zero-initialized Option of the same type and keeps it; arg records
\* the Option the bytes were encoded from
DoDecodeEncoded ==
    /\ IsOption(held)
    /\ last.op = "MarshalJSON"
    /\ ~last.ret.err
    /\ LET o == UnmarshalJSON(ZeroOption(held.typ), last.ret.data) IN
       /\ last' = Call("UnmarshalJSON", ZeroOption(held.typ), last.recv, "roundtrip",
                       last.ret.data, o)
       /\ held' = IF o.panicked THEN held ELSE o.ret.o

\* ---------------------------------------------- result
\* the record of the call keeps the error argument in recv.err
DoFrom ==
    \E T \in ResultTypes : \E v \in ValuesOf(T) : \E e \in ValuesOf("error") :
        /\ last' = Call("From", Result(T, NoVal, e), v, "", <<>>, From(T, v, e))
        /\ held' = Keep(From(T, v, e))

DoOk ==
    \E T \in ResultTypes : \E v \in ValuesOf(T) :
        /\ last' = Call("Ok", Result(T, NoVal, NoVal), v, "", <<>>, Ok(T, v))
        /\ held' = Keep(Ok(T, v))

DoError ==
    \E T \in ResultTypes : \E e \in ValuesOf("error") :
        /\ last' = Call("Error", Result(T, NoVal, NoVal), e, "", <<>>, Error(T, e))
        /\ held' = Keep(Error(T, e))

\* var held Result[T]
DoZeroResult ==
    \E T \in ResultTypes :
        /\ last' = Call("var", NoVal, NoVal, "", <<>>, Return(ZeroResult(T)))
        /\ held' = ZeroResult(T)

DoIsOk ==
    /\ IsResult(held)
    /\ last' = Call("IsOk", held, NoVal, "", <<>>, IsOk(held))
    /\ UNCHANGED held

DoIsErr ==
    /\ IsResult(held)
    /\ last' = Call("IsErr", held, NoVal, "", <<>>, IsErr(held))
    /\ UNCHANGED held

DoIfOk ==
    /\ IsResult(held)
    /\ last' = Call("IfOk", held, NoVal, "consumer", <<>>, IfOk(held))
    /\ UNCHANGED held

DoIfError ==
    /\ IsResult(held)
    /\ last' = Call("IfError", held, NoVal, "consumer", <<>>, IfError(held))
    /\ UNCHANGED held

\* held = held.Ok()
DoResultOk ==
    /\ IsResult(held)
    /\ last' = Call("Result.Ok", held, NoVal, "", <<>>, ResultOk(held))
       /\ held' = Keep(ResultOk(held))

\* held = held.Error()
DoResultError ==
    /\ IsResult(held)
    /\ last' = Call("Result.Error", held, NoVal, "", <<>>, ResultError(held))
       /\ held' = Keep(ResultError(held))

DoResultGet ==
    /\ IsResult(held)
    /\ last' = Call("Result.Get", held, NoVal, "", <<>>, ResultGet(held))
    /\ UNCHANGED held

DoResultUnwrap ==
    /\ IsResult(held)
    /\ last' = Call("Result.Unwrap", held, NoVal, "", <<>>, ResultUnwrap(held))
    /\ UNCHANGED held

DoResultUnwrapOrDefault ==
    /\ IsResult(held)
    /\ \E d \in ValuesOf(held.typ) :
           /\ last' = Call("Result.UnwrapOrDefault", held, d, "", <<>>,
                           ResultUnwrapOrDefault(held, d))
           /\ UNCHANGED held

DoResultUnwrapOrElse ==
    /\ IsResult(held)
    /\ \E s \in ValuesOf(held.typ) :
           /\ last' = Call("Result.UnwrapOrElse", held, s, "supplier", <<>>,
                           ResultUnwrapOrElse(held, s))
           /\ UNCHANGED held

DoResultExpect ==
    /\ IsResult(held)
    /\ \E m \in Msgs :
           /\ last' = Call("Result.Expect", held, NoVal, m, <<>>, ResultExpect(held, m))
           /\ UNCHANGED held

\* held = result.Map(held, fn)
DoResultMap ==
    /\ IsResult(held)
    /\ \E fn \in FnsOn(held.typ) :
           /\ last' = Call("Result.Map", held, NoVal, fn, <<>>, ResultMap(held, fn))
           /\ held' = Keep(ResultMap(held, fn))

\* ------------------------------ result, pointer-based representation
\* the results a client of the pointer-based representation holds
LegacyResults(T) ==
    {ZeroLegacyResult(T)}
        \cup {LegacyFrom(T, v, e).ret : v \in ValuesOf(T), e \in ValuesOf("error")}
        \cup {LegacyOk(T, v).ret : v \in ValuesOf(T)}
        \cup {LegacyErr(T, e).ret : e \in ValuesOf("error")}

DoLegacyIsOk ==
    \E T \in LegacyTypes : \E r \in LegacyResults(T) :
        /\ last' = Call("legacy.IsOk", r, NoVal, "", <<>>, LegacyIsOk(r))
        /\ UNCHANGED held

DoLegacyIsErr ==
    \E T \in LegacyTypes : \E r \in LegacyResults(T) :
        /\ last' = Call("legacy.IsErr", r, NoVal, "", <<>>, LegacyIsErr(r))
        /\ UNCHANGED held

DoLegacyUnwrap ==
    \E T \in LegacyTypes : \E r \in LegacyResults(T) :
        /\ last' = Call("legacy.Unwrap", r, NoVal, "", <<>>, LegacyUnwrap(r))
        /\ UNCHANGED held

ResultNext ==
    \/ DoFrom \/ DoOk \/ DoError \/ DoZeroResult
    \/ DoIsOk \/ DoIsErr \/ DoIfOk \/ DoIfError
    \/ DoResultOk \/ DoResultError \/ DoResultGet
    \/ DoResultUnwrap \/ DoResultUnwrapOrDefault \/ DoResultUnwrapOrElse
    \/ DoResultExpect \/ DoResultMap
    \/ DoLegacyIsOk \/ DoLegacyIsErr \/ DoLegacyUnwrap

OptionNext ==
    \/ DoSome \/ DoNone \/ DoFromNillable \/ DoPtrFromNillable \/ DoZeroOption
    \/ DoIsSome \/ DoIsNone \/ DoIfSome \/ DoIfNone \/ DoFilter \/ DoGet
    \/ DoUnwrap \/ DoUnwrapOrDefault \/ DoUnwrapOrElse \/ DoExpect
    \/ DoMap \/ DoMapOr \/ DoFlatMap \/ DoFlatMapOr
    \/ DoMarshalJSON \/ DoUnmarshalJSON \/ DoDecodeEncoded

Next == OptionNext \/ ResultNext

Spec == Init /\ [][Next]_vars
\* ====================================================================
\* Properties
\* ====================================================================
\* the receiver of the last call is an absent Option / a failure Result
RecvAbsent == IsOption(last.recv) /\ ~last.recv.exists
RecvFailure == IsResult(last.recv) /\ last.recv.err # NilIface

\* C1: a call panics only if it is Unwrap or Expect on an absent Option or on
\* a failure Result, or Some given the nil interface value; every other call
\* returns normally.
C1_OnlyDocumentedPanics ==
    last.panicked =>
        \/ last.op \in {"Unwrap", "Expect"} /\ RecvAbsent
        \/ last.op \in {"Result.Unwrap", "Result.Expect"} /\ RecvFailure
        \/ last.op = "Some" /\ last.arg = NilIface

\* C2 as stated: for every v of every T, Some(v) returns a container with
\* IsSome() true whose Unwrap() returns v.
C2_SomeOfEveryValue ==
    last.op = "Some" =>
        /\ ~last.panicked
        /\ IsSome(last.ret) = Return(Bool(TRUE))
        /\ Unwrap(last.ret) = Return(last.arg)

\* C2 amended: for every v that is not the nil interface value, Some(v) returns
\* a container of T with IsSome() true whose Unwrap() returns v; Some of the nil
\* interface value panics.
C2_SomeOfNonNil ==
    last.op = "Some" =>
        IF last.arg = NilIface
        THEN last.panicked /\ last.msg = "cannot provide a nil value for Some"
        ELSE /\ ~last.panicked
             /\ last.ret.typ = last.recv.typ
             /\ IsSome(last.ret) = Return(Bool(TRUE))
             /\ IsNone(last.ret) = Return(Bool(FALSE))
             /\ Unwrap(last.ret) = Return(last.arg)

\* a typed nil pointer stored in an Option of an interface type: present
C2_Witness ==
    /\ last.op = "Some"
    /\ last.recv.typ = "any"
    /\ last.arg = NilPtr
    /\ ~last.panicked
    /\ held = last.ret

\* C3: Ok(v).IsOk() is true and Ok(v).Unwrap() returns v; for every e of type
\* error, Error(e).IsErr() is true, Error(e).IsOk() is false and
\* Error(e).Unwrap() panics.
C3_OkAndError ==
    /\ last.op = "Ok" =>
          /\ ~last.panicked
          /\ IsOk(last.ret) = Return(Bool(TRUE))
          /\ ResultUnwrap(last.ret) = Return(last.arg)
    /\ last.op = "Error" =>
          /\ ~last.panicked
          /\ IsErr(last.ret) = Return(Bool(TRUE))
          /\ IsOk(last.ret) = Return(Bool(FALSE))
          /\ ResultUnwrap(last.ret).panicked
\* the last call decoded the bytes MarshalJSON produced for the Option last.arg
RoundTrip == last.op = "UnmarshalJSON" /\ last.fn = "roundtrip"

\* C4 as stated: MarshalJSON of an absent Option yields null; UnmarshalJSON of
\* null or of empty input yields None(); decoding the encoding of a present
\* Option Some(v) yields a container equal to Some(v).
C4_RoundTripOfEverySome ==
    /\ (last.op = "MarshalJSON" /\ ~last.recv.exists) =>
          (~last.panicked /\ last.ret = Bytes(FALSE, jsonNull))
    /\ (last.op = "UnmarshalJSON" /\ last.data \in {<<>>, jsonNull}) =>
          (~last.panicked /\ last.ret = Decoded(None(last.recv.typ).ret, FALSE))
    /\ (RoundTrip /\ last.arg.exists) =>
          (~last.panicked /\ last.ret = Decoded(last.arg, FALSE))

\* v comes back from json.Unmarshal(json.Marshal(v)) into a T unchanged
JsonStable(T, v) ==
    /\ ~JsonMarshal(v).err
    /\ JsonUnmarshal(T, JsonMarshal(v).data) = [err |-> FALSE, val |-> v]

\* C4 amended: MarshalJSON of an absent Option yields null; UnmarshalJSON of
\* null or of empty input yields None(); decoding the encoding of a present
\* Option Some(v) yields a container equal to Some(v) when the encoding of v is
\* not the literal null and encoding/json decodes it back into a T as v; when
\* the encoding of v is the literal null (v is a nil pointer) it yields None().
C4_RoundTripOfStableSome ==
    /\ (last.op = "MarshalJSON" /\ ~last.recv.exists) =>
          (~last.panicked /\ last.ret = Bytes(FALSE, jsonNull))
    /\ (last.op = "UnmarshalJSON" /\ last.data \in {<<>>, jsonNull}) =>
          (~last.panicked /\ last.ret = Decoded(None(last.recv.typ).ret, FALSE))
    /\ (RoundTrip /\ last.arg.exists /\ last.data # jsonNull
          /\ JsonStable(last.arg.typ, last.arg.val)) =>
          (~last.panicked /\ last.ret = Decoded(last.arg, FALSE) /\ held = last.arg)
    /\ (RoundTrip /\ last.arg.exists /\ last.data = jsonNull) =>
          (~last.panicked /\ last.ret = Decoded(None(last.arg.typ).ret, FALSE))

\* a present Option[int] holding a non-zero int has been encoded and decoded
C4_Witness ==
    /\ RoundTrip
    /\ last.arg = Option("int", IntV(1), TRUE)
    /\ held = last.arg

\* C5: Map(opt, f) is absent when opt is absent (f is not invoked) and is the
\* present container holding f(v) when opt is Some(v); FlatMap(opt, f) is absent
\* when opt is absent (f is not invoked) and is the Option f(v) returned when
\* opt is Some(v).
C5_MapAndFlatMap ==
    /\ last.op = "Map" =>
          /\ ~last.panicked
          /\ IF last.recv.exists
             THEN last.ret = Option(FnCod(last.fn), Apply(last.fn, last.recv.val), TRUE)
             ELSE last.ret = None(FnCod(last.fn)).ret /\ last.calls = 0
    /\ last.op = "FlatMap" =>
          /\ ~last.panicked
          /\ IF last.recv.exists
             THEN last.ret = ApplyOpt(last.fn, last.recv.val)
             ELSE last.ret = None(OptFnCod(last.fn)).ret /\ last.calls = 0

\* C6: MapOr(None, fallback, f) returns fallback and MapOr(Some(v), fallback, f)
\* returns f(v), both as raw values; FlatMapOr(None, fallback, f) returns
\* Some(fallback) and FlatMapOr(Some(v), fallback, f) returns the Option f(v)
\* produced; f is not invoked in the absent branch.
C6_OrCombinators ==
    /\ last.op = "MapOr" =>
          /\ ~last.panicked
          /\ IF last.recv.exists
             THEN last.ret = Apply(last.fn, last.recv.val)
             ELSE last.ret = last.arg /\ last.calls = 0
    /\ last.op = "FlatMapOr" =>
          /\ ~last.panicked
          /\ IF last.recv.exists
             THEN last.ret = ApplyOpt(last.fn, last.recv.val)
             ELSE last.ret = Option(OptFnCod(last.fn), last.arg, TRUE) /\ last.calls = 0
\* C7: for every failure Result r and every f, result.Map(r, f) is a failure
\* Result with the same failure and the zero value of R, and f is not invoked;
\* for a success Result holding v it is the success Result holding f(v).
C7_ResultMap ==
    last.op = "Result.Map" =>
        /\ ~last.panicked
        /\ IF last.recv.err # NilIface
           THEN /\ last.ret = Result(FnCod(last.fn), Zero(FnCod(last.fn)), last.recv.err)
                /\ IsErr(last.ret) = Return(Bool(TRUE))
                /\ last.calls = 0
           ELSE /\ last.ret = Result(FnCod(last.fn), Apply(last.fn, last.recv.val), NilIface)
                /\ IsOk(last.ret) = Return(Bool(TRUE))
                /\ last.calls = 1

\* a failure built by From with a payload that f would map to a non-zero value
C7_Witness ==
    /\ last.op = "Result.Map"
    /\ last.recv = Result("int", IntV(0), ErrV(1))
    /\ last.fn = "succ"
    /\ held = Result("int", IntV(0), ErrV(1))

\* C8: r.Ok() is the present Option holding r's value when r is a success and
\* None when r is a failure; r.Error() is the present Option holding r's
\* failure when r is a failure and None when r is a success; exactly one of
\* r.Ok().IsSome() and r.Error().IsSome() is true.
C8_Projections ==
    /\ last.op = "Result.Ok" =>
          /\ ~last.panicked
          /\ last.ret = IF last.recv.err = NilIface
                        THEN Option(last.recv.typ, last.recv.val, TRUE)
                        ELSE None(last.recv.typ).ret
    /\ last.op = "Result.Error" =>
          /\ ~last.panicked
          /\ last.ret = IF last.recv.err # NilIface
                        THEN Option("error", last.recv.err, TRUE)
                        ELSE None("error").ret
    /\ last.op \in {"Result.Ok", "Result.Error"} =>
          /\ ~ResultOk(last.recv).panicked
          /\ ~ResultError(last.recv).panicked
          /\ ResultOk(last.recv).ret.exists # ResultError(last.recv).ret.exists

\* the receiver of the last call is a zero-initialized container
RecvZeroOption == \E T \in Types : last.recv = ZeroOption(T)
RecvZeroResult == \E T \in Types : last.recv = ZeroResult(T)
RecvZeroLegacy == \E T \in Types : last.recv = ZeroLegacyResult(T)

\* C9 as stated: a zero-initialized Option is absent (IsNone() true, IsSome()
\* false, Unwrap() panics) and a zero-initialized Result is a failure (IsErr()
\* true, IsOk() false, Unwrap() panics).
C9_ZeroIsAbsentOrFailure ==
    /\ RecvZeroOption =>
          /\ last.op = "IsNone" => last.ret = Bool(TRUE)
          /\ last.op = "IsSome" => last.ret = Bool(FALSE)
          /\ last.op = "Unwrap" => last.panicked
    /\ RecvZeroResult =>
          /\ last.op = "IsErr" => last.ret = Bool(TRUE)
          /\ last.op = "IsOk" => last.ret = Bool(FALSE)
          /\ last.op = "Result.Unwrap" => last.panicked

\* C9 amended: a zero-initialized Option is absent (IsNone() true, IsSome()
\* false, Unwrap() panics, Get() returns the zero value and false); a
\* zero-initialized Result is a success: IsOk() is true, IsErr() is false and
\* Unwrap() returns the zero value of T without panicking.  In the pointer-based
\* representation it is a success as well and Unwrap() panics on the nil
\* reference.
C9_ZeroOptionAbsentZeroResultOk ==
    /\ RecvZeroOption =>
          /\ last.op = "IsNone" => last.ret = Bool(TRUE)
          /\ last.op = "IsSome" => last.ret = Bool(FALSE)
          /\ last.op = "Unwrap" => last.panicked
          /\ last.op = "Get" => last.ret = Pair(Zero(last.recv.typ), FALSE)
    /\ RecvZeroResult =>
          /\ last.op = "IsErr" => last.ret = Bool(FALSE)
          /\ last.op = "IsOk" => last.ret = Bool(TRUE)
          /\ last.op = "Result.Unwrap" =>
                (~last.panicked /\ last.ret = Zero(last.recv.typ))
    /\ RecvZeroLegacy =>
          /\ last.op = "legacy.IsErr" => last.ret = Bool(FALSE)
          /\ last.op = "legacy.IsOk" => last.ret = Bool(TRUE)
          /\ last.op = "legacy.Unwrap" => last.panicked

\* IsErr has been called on a zero-initialized Result
C9_Witness ==
    /\ last.op = "IsErr"
    /\ RecvZeroResult
    /\ held = ZeroResult("int")

\* C10: UnwrapOrElse invokes the supplier exactly once and returns its result
\* when the Option is absent / the Result is a failure, and does not invoke it
\* and returns the contained value otherwise; UnwrapOrDefault returns the
\* contained value when present / success and the fallback otherwise.
C10_LazyFallback ==
    /\ last.op = "UnwrapOrElse" =>
          /\ ~last.panicked
          /\ IF last.recv.exists
             THEN last.calls = 0 /\ last.ret = last.recv.val
             ELSE last.calls = 1 /\ last.ret = last.arg
    /\ last.op = "Result.UnwrapOrElse" =>
          /\ ~last.panicked
          /\ IF last.recv.err = NilIface
             THEN last.calls = 0 /\ last.ret = last.recv.val
             ELSE last.calls = 1 /\ last.ret = last.arg
    /\ last.op = "UnwrapOrDefault" =>
          /\ ~last.panicked
          /\ last.ret = IF last.recv.exists THEN last.recv.val ELSE last.arg
    /\ last.op = "Result.UnwrapOrDefault" =>
          /\ ~last.panicked
          /\ last.ret = IF last.recv.err = NilIface THEN last.recv.val ELSE last.arg

\* UnwrapOrElse on a success Result whose value differs from the supplier's
C10_Witness ==
    /\ last.op = "Result.UnwrapOrElse"
    /\ last.recv = Result("int", IntV(1), NilIface)
    /\ last.arg = IntV(0)
    /\ last.ret = IntV(1)
\* C11: Expect(msg) panics with exactly msg on None and on a failure Result and
\* returns the contained value on Some / Ok; Unwrap() panics with a fixed
\* message, the same for every absent / failure receiver, and returns the
\* contained value otherwise.
C11_ExtractionPanics ==
    /\ last.op = "Expect" =>
          IF last.recv.exists
          THEN ~last.panicked /\ last.ret = last.recv.val
          ELSE last.panicked /\ last.msg = last.fn
    /\ last.op = "Result.Expect" =>
          IF last.recv.err = NilIface
          THEN ~last.panicked /\ last.ret = last.recv.val
          ELSE last.panicked /\ last.msg = last.fn
    /\ last.op = "Unwrap" =>
          IF last.recv.exists
          THEN ~last.panicked /\ last.ret = last.recv.val
          ELSE last.panicked /\ last.msg = "cannot unwrap none/nil value"
    /\ last.op = "Result.Unwrap" =>
          IF last.recv.err = NilIface
          THEN ~last.panicked /\ last.ret = last.recv.val
          ELSE last.panicked /\ last.msg = "cannot unwrap Result when Error"

\* Expect has panicked on an absent Option with the caller's message
C11_Witness ==
    /\ last.op = "Expect"
    /\ last.recv = None("int").ret
    /\ last.panicked
    /\ last.msg = "missing string property"
\* an absent Option holds the zero value of its type, i.e. equals None()
AbsentIsNone(o) == (IsOption(o) /\ ~o.exists) => o = None(o.typ).ret

\* C12: in every Option the client can reach through the constructors, Filter,
\* the combinators, the projections of Result and UnmarshalJSON, exists = FALSE
\* implies that val is the zero value of T; so Get() on an absent Option
\* returns the zero value and false, and every absent Option equals None().
C12_AbsentHoldsZero ==
    /\ AbsentIsNone(held)
    /\ ~last.panicked => AbsentIsNone(last.ret)
    /\ (last.op = "UnmarshalJSON" /\ ~last.panicked) => AbsentIsNone(last.ret.o)
    /\ (last.op = "Get" /\ ~last.recv.exists) =>
          last.ret = Pair(Zero(last.recv.typ), FALSE)

\* null has been decoded into an Option that held a non-zero value
C12_Witness ==
    /\ last.op = "UnmarshalJSON"
    /\ last.recv = Option("int", IntV(1), TRUE)
    /\ last.data = jsonNull
    /\ held = None("int").ret
ResultPair(v, e) == [k |-> "pair", v |-> v, err |-> e]

\* C13: for every v and every non-nil e, From(v, e).Get() returns exactly
\* (v, e), while every other accessor treats the container as a failure:
\* IsErr() is true, IfOk does not invoke its consumer, Ok() is None,
\* UnwrapOrDefault(d) returns d, UnwrapOrElse(s) returns s(), Unwrap and Expect
\* panic.  From(v, nil) is the same container as Ok(v).
C13_RawConstructor ==
    /\ last.op = "From" =>
          /\ ~last.panicked
          /\ ResultGet(last.ret) = Return(ResultPair(last.arg, last.recv.err))
          /\ last.recv.err = NilIface => last.ret = Ok(last.recv.typ, last.arg).ret
          /\ last.recv.err # NilIface =>
                /\ IsErr(last.ret) = Return(Bool(TRUE))
                /\ IsOk(last.ret) = Return(Bool(FALSE))
    /\ RecvFailure =>
          /\ last.op = "Result.Get" =>
                (~last.panicked /\ last.ret = ResultPair(last.recv.val, last.recv.err))
          /\ last.op = "IsErr" => last.ret = Bool(TRUE)
          /\ last.op = "IfOk" => (~last.panicked /\ last.calls = 0)
          /\ last.op = "Result.Ok" =>
                (~last.panicked /\ last.ret = None(last.recv.typ).ret)
          /\ last.op = "Result.UnwrapOrDefault" =>
                (~last.panicked /\ last.ret = last.arg)
          /\ last.op = "Result.UnwrapOrElse" =>
                (~last.panicked /\ last.ret = last.arg /\ last.calls = 1)
          /\ last.op \in {"Result.Unwrap", "Result.Expect"} => last.panicked

\* Get has been called on From(1, e): the value comes back with the error
C13_Witness ==
    /\ last.op = "Result.Get"
    /\ held = From("int", IntV(1), ErrV(1)).ret
    /\ last.ret = ResultPair(IntV(1), ErrV(1))
\* C14: when UnmarshalJSON is given input that is neither empty nor the literal
\* null and decoding it into the contained type fails, it returns the error and
\* leaves the receiver as it was (same value, same flag); the receiver is
\* replaced only when the decoding succeeded.
C14_DecodeErrorKeepsReceiver ==
    (last.op = "UnmarshalJSON" /\ last.data # <<>> /\ last.data # jsonNull) =>
        IF JsonUnmarshal(last.recv.typ, last.data).err
        THEN /\ ~last.panicked
             /\ last.ret = Decoded(last.recv, TRUE)
             /\ last.fn = "" => held = last.recv
        ELSE /\ ~last.panicked => ~last.ret.err
             /\ (last.fn = "" /\ held # last.recv) =>
                   (~last.panicked /\ held = last.ret.o /\ held.exists)

\* a present Option has been handed bytes that do not decode
C14_Witness ==
    /\ last.op = "UnmarshalJSON"
    /\ last.recv = Option("int", IntV(1), TRUE)
    /\ last.data = <<"x">>
    /\ last.ret.err
    /\ held = Option("int", IntV(1), TRUE)
====
